---- MODULE Spec2Model ----
(***************************************************************************)
(* A model of gf (src/src/main.rs): a pattern manager for grep-like tools. *)
(*                                                                         *)
(* Every invocation of the program is a process that runs `run()` from the *)
(* parsed command line to its exit, one file-system call per step.  The    *)
(* pattern store (the two candidate directories under the home directory   *)
(* and the files in them) is the shared state of all invocations.          *)
(*                                                                         *)
(* A Rust String is a sequence of one-character strings; Option<T> is a    *)
(* sequence of length 0 (None) or 1 (Some); a file's text is a sequence of *)
(* JSON tokens.                                                            *)
(*                                                                         *)
(* Names are file names: a name with a path separator is not modelled.     *)
(* The program never removes a file or a directory, and neither does the   *)
(* model.  Under Spec every file-system call that can succeed does; under  *)
(* SpecFault create_dir_all and the write of the record may fail.          *)
(***************************************************************************)
EXTENDS Naturals, Sequences, FiniteSets

(***************************************************************************)
(* Strings and options                                                     *)
(***************************************************************************)
None == <<>>

Some(x) == <<x>>

IsSome(o) == Len(o) = 1

\* Option::unwrap_or / unwrap_or_default / unwrap_or_else
UnwrapOr(o, d) == IF IsSome(o) THEN o[1] ELSE d

\* Vec::first, Vec::get(i) (0-based in source, 1-based here)
Get(v, i) == IF i <= Len(v) THEN Some(v[i]) ELSE None

RECURSIVE Join(_, _)
\* [String]::join(sep)
Join(ss, sep) ==
  IF ss = <<>> THEN <<>>
  ELSE IF Len(ss) = 1 THEN ss[1]
  ELSE ss[1] \o sep \o Join(Tail(ss), sep)

IsWhitespace(c) == c \in {" ", "\t", "\n"}

RECURSIVE SplitFrom(_, _, _)
\* the words of s from position i on, cur being the word under construction
SplitFrom(s, i, cur) ==
  IF i > Len(s) THEN (IF cur = <<>> THEN <<>> ELSE <<cur>>)
  ELSE IF IsWhitespace(s[i])
       THEN (IF cur = <<>> THEN <<>> ELSE <<cur>>) \o SplitFrom(s, i + 1, <<>>)
       ELSE SplitFrom(s, i + 1, Append(cur, s[i]))

\* str::split_whitespace
SplitWhitespace(s) == SplitFrom(s, 1, <<>>)

RECURSIVE EscapeDebug(_)
\* the escapes of <str as Debug>::fmt for the characters of the model
EscapeDebug(s) ==
  IF s = <<>> THEN <<>>
  ELSE (CASE Head(s) = "\"" -> <<"\\", "\"">>
          [] Head(s) = "\\" -> <<"\\", "\\">>
          [] Head(s) = "\t" -> <<"\\", "t">>
          [] Head(s) = "\n" -> <<"\\", "n">>
          [] OTHER -> <<Head(s)>>) \o EscapeDebug(Tail(s))

\* format!("{:?}", s)
DebugStr(s) == <<"\"">> \o EscapeDebug(s) \o <<"\"">>

(***************************************************************************)
(* Literals of the program                                                 *)
(***************************************************************************)
GREP == <<"g", "r", "e", "p">>

DOT == <<".">>

JSON == <<"j", "s", "o", "n">>

SPACE == <<" ">>

PIPE == <<"|">>

(***************************************************************************)
(* The pattern record and its JSON text                                    *)
(***************************************************************************)
\* struct Pattern
Pattern(f, p, ps, e) == [flags |-> f, pattern |-> p, patterns |-> ps, engine |-> e]

\* JSON values: null, a string, an array of strings, a number
JNull == [t |-> "null", s |-> <<>>, a |-> <<>>]

JStr(x) == [t |-> "str", s |-> x, a |-> <<>>]

JArr(xs) == [t |-> "arr", s |-> <<>>, a |-> xs]

JNum == [t |-> "num", s |-> <<>>, a |-> <<>>]

\* the tokens of an object's text: its braces and its members
LBrace == [k |-> "{", v |-> JNull]

RBrace == [k |-> "}", v |-> JNull]

Member(key, val) == [k |-> key, v |-> val]

\* Serialize for Option<String> and Option<Vec<String>>
SerStr(o) == IF IsSome(o) THEN JStr(o[1]) ELSE JNull

SerArr(o) == IF IsSome(o) THEN JArr(o[1]) ELSE JNull

\* serde_json::to_writer_pretty(f, &p): every field is written, None as null
Serialize(p) ==
  << LBrace,
     Member("flags", SerStr(p.flags)),
     Member("pattern", SerStr(p.pattern)),
     Member("patterns", SerArr(p.patterns)),
     Member("engine", SerStr(p.engine)),
     RBrace >>

Fields == {"flags", "pattern", "patterns", "engine"}

\* the members of a text between its braces
Members(text) == SubSeq(text, 2, Len(text) - 1)

\* the values a text gives to a key
ValuesOf(text, key) ==
  LET ms == Members(text)
  IN  {ms[i].v : i \in {j \in 1..Len(ms) : ms[j].k = key}}

\* Deserialize for an optional field: absent or null is None
DeStr(vs) ==
  IF vs = {} THEN None
  ELSE LET v == CHOOSE x \in vs : TRUE
       IN  IF v.t = "str" THEN Some(v.s) ELSE None

DeArr(vs) ==
  IF vs = {} THEN None
  ELSE LET v == CHOOSE x \in vs : TRUE
       IN  IF v.t = "arr" THEN Some(v.a) ELSE None

\* whether serde_json::from_reader decodes the text into a Pattern: one
\* object, closed, no field given twice, every field of its type or null
\* (fields the struct does not have are ignored)
Decodes(text) ==
  /\ Len(text) >= 2
  /\ text[1] = LBrace
  /\ text[Len(text)] = RBrace
  /\ \A i \in 2..(Len(text) - 1) : text[i].k \notin {"{", "}"}
  /\ \A i, j \in 2..(Len(text) - 1) :
        (i # j /\ text[i].k \in Fields) => text[i].k # text[j].k
  /\ \A i \in 2..(Len(text) - 1) :
        /\ text[i].k \in {"flags", "pattern", "engine"}
              => text[i].v.t \in {"null", "str"}
        /\ text[i].k = "patterns" => text[i].v.t \in {"null", "arr"}

\* the Pattern serde_json::from_reader returns for a text that decodes
Deserialize(text) ==
  Pattern(DeStr(ValuesOf(text, "flags")),
          DeStr(ValuesOf(text, "pattern")),
          DeArr(ValuesOf(text, "patterns")),
          DeStr(ValuesOf(text, "engine")))

(***************************************************************************)
(* Paths                                                                   *)
(***************************************************************************)
\* format!("{}.json", name)
FileName(name) == name \o DOT \o JSON

\* the position of the last '.' of a file name, 0 when it has none
LastDot(f) ==
  LET ds == {i \in 1..Len(f) : f[i] = "."}
  IN  IF ds = {} THEN 0 ELSE CHOOSE i \in ds : \A j \in ds : j <= i

\* Path::extension: what follows the last '.', unless the name has no '.',
\* starts with its only '.', or is ".."
Extension(f) ==
  IF f = <<".", ".">> \/ LastDot(f) <= 1 THEN None
  ELSE Some(SubSeq(f, LastDot(f) + 1, Len(f)))

\* (a variant: the name is cut at its first '.')
FileStemFirstDot(f) ==
  IF \A i \in 1..Len(f) : f[i] # "." THEN Some(f)
  ELSE Some(SubSeq(f, 1, (CHOOSE i \in 1..Len(f) :
                            f[i] = "." /\ \A j \in 1..(i - 1) : f[j] # ".") - 1))

\* Path::file_stem: what precedes the last '.', the whole name in the cases
\* where there is no extension
FileStem(f) ==
  IF f = <<".", ".">> \/ LastDot(f) <= 1 THEN Some(f)
  ELSE Some(SubSeq(f, 1, LastDot(f) - 1))

\* the two candidate pattern directories under the home directory:
\* "config" is ~/.config/gf and "gf" is ~/.gf
Dirs == {"config", "gf"}

\* get_pattern_dir, given the directories that exist: .config/gf when it
\* exists, .gf otherwise (existing or not)
PatternDir(existing) == IF "config" \in existing THEN "config" ELSE "gf"

(***************************************************************************)
(* The resolver and the dispatcher of run()                                *)
(***************************************************************************)
\* (a variant: patterns that are not empty are preferred to pattern)
PatternStrPatternsFirst(pat) ==
  IF IsSome(pat.patterns) /\ pat.patterns[1] # <<>>
  THEN Some(<<"(">> \o Join(pat.patterns[1], PIPE) \o <<")">>)
  ELSE pat.pattern

\* pattern_str: None stands for the bail!("... contains no pattern(s)")
PatternStr(pat) ==
  IF IsSome(pat.pattern) THEN Some(pat.pattern[1])
  ELSE IF IsSome(pat.patterns)
       THEN IF pat.patterns[1] = <<>> THEN None
            ELSE Some(<<"(">> \o Join(pat.patterns[1], PIPE) \o <<")">>)
       ELSE None

\* operator: the record's engine, grep by default
EngineOf(pat) == UnwrapOr(pat.engine, GREP)

\* the command line printed by --dump
DumpCommand(pat, pattern_str, files) ==
  EngineOf(pat) \o SPACE
    \o (IF IsSome(pat.flags) THEN pat.flags[1] \o SPACE ELSE <<>>)
    \o DebugStr(pattern_str) \o SPACE \o files

\* (a variant: the files argument is given whether stdin is a pipe or not)
CommandArgsWithFiles(pat, pattern_str, files, stdin_is_pipe) ==
  (IF IsSome(pat.flags) THEN SplitWhitespace(pat.flags[1]) ELSE <<>>)
    \o <<pattern_str>> \o <<files>>

\* the arguments given to the engine in execute mode
CommandArgs(pat, pattern_str, files, stdin_is_pipe) ==
  (IF IsSome(pat.flags) THEN SplitWhitespace(pat.flags[1]) ELSE <<>>)
    \o <<pattern_str>>
    \o (IF ~stdin_is_pipe THEN <<files>> ELSE <<>>)

\* files: the first trailing argument, "." by default
FilesArg(args) == UnwrapOr(Get(args, 1), DOT)

\* (a variant: exit(1) whenever the child did not succeed)
ExitCodeOne(code) == IF code = Some(0) THEN 0 ELSE 1

\* the exit code of run() after the child ended with status code `code`
\* (None: ended by a signal): exit(code.unwrap_or(1)) unless status.success()
ExitCodeAfter(code) == IF code = Some(0) THEN 0 ELSE UnwrapOr(code, 1)

(***************************************************************************)
(* The arguments of --save                                                 *)
(***************************************************************************)
\* flags: the first trailing argument, "" by default
SaveFlags(args) == UnwrapOr(Get(args, 1), <<>>)

\* (a variant: the pattern is the last trailing argument, the flags optional)
SavePatternLast(args) == Get(args, IF Len(args) = 0 THEN 1 ELSE Len(args))

\* pattern: the second trailing argument
SavePatternArg(args) == Get(args, 2)

\* the record save_pattern builds: empty flags are stored as None
NewPattern(flags, pat, engine) ==
  Pattern(IF flags = <<>> THEN None ELSE Some(flags), Some(pat), None, engine)

\* the error run() and save_pattern raise for a --save command line before
\* any file is touched ("" when there is none)
SaveArgsError(c) ==
  IF ~IsSome(c.name) THEN "Name cannot be empty"
  ELSE IF ~IsSome(SavePatternArg(c.args)) THEN "Pattern cannot be empty"
  ELSE IF c.name[1] = <<>> THEN "Name cannot be empty"
  ELSE IF SavePatternArg(c.args)[1] = <<>> THEN "Pattern cannot be empty"
  ELSE ""

(***************************************************************************)
(* Bounds and inputs                                                       *)
(***************************************************************************)
\* the number of invocations of the program that may run at the same time
NumProcs == 2

\* the child's exit codes range over 0..MaxExitCode
MaxExitCode == 2

Procs == 1..NumProcs

NameA == <<"a">>

NameBC == <<"b", ".", "c">>

FlagsHn == <<"-", "H", " ", " ", "-", "n">>

Pat == <<"p">>

PatQuote == <<"s", "\"">>

Rg == <<"r", "g">>

Path == <<"/", "d">>

NameH == <<"h">>

\* the texts of hand-made pattern files, as the tests and the user write
\* them: cut short, without a pattern, with a number for a pattern, with
\* patterns, with both, with empty flags, with no patterns
HandTexts ==
  {<<LBrace, Member("malformed", JNull)>>,
   <<LBrace, Member("flags", JStr(FlagsHn)), RBrace>>,
   <<LBrace, Member("pattern", JNum), RBrace>>,
   <<LBrace, Member("patterns", JArr(<<<<"a">>, <<"b">>, <<"c">>>>)), RBrace>>,
   <<LBrace, Member("pattern", JStr(<<"x">>)),
     Member("patterns", JArr(<<<<"a">>, <<"b">>>>)), RBrace>>,
   <<LBrace, Member("flags", JStr(<<>>)), Member("pattern", JStr(PatQuote)),
     Member("engine", JStr(Rg)), RBrace>>,
   <<LBrace, Member("pattern", JNull), Member("patterns", JArr(<<>>)), RBrace>>}

\* a directory holding the hand-made pattern file h.json with this text,
\* and a file that is no pattern file
HandMade(text) ==
  [f \in {FileName(NameH), <<"n", ".", "t", "x", "t">>} |->
     IF f = FileName(NameH) THEN text ELSE <<>>]

\* the names given on the command line
SaveNames == {None, Some(<<>>), Some(NameA), Some(NameBC)}

UseNames == {None, Some(NameA), Some(NameBC), Some(NameH)}

\* the trailing arguments of --save: none, one, flags and pattern, empty
\* flags and pattern, flags and empty pattern
SaveArgs == {<<>>, <<Pat>>, <<FlagsHn, Pat>>, <<<<>>, Pat>>, <<FlagsHn, <<>>>>}

\* struct Cli
Cli(l, s, d, n, e, a) ==
  [list |-> l, save |-> s, dump |-> d, name |-> n, engine |-> e, args |-> a]

NoCli == Cli(FALSE, FALSE, FALSE, None, None, <<>>)

\* the command lines of the model
Invocations ==
  {Cli(TRUE, FALSE, FALSE, None, None, <<>>)}
    \cup {Cli(FALSE, TRUE, FALSE, n, None, a) : n \in SaveNames, a \in SaveArgs}
    \cup {Cli(FALSE, TRUE, FALSE, n, Some(Rg), <<<<>>, Pat>>) : n \in SaveNames}
    \cup {Cli(FALSE, FALSE, d, n, None, a) :
            d \in BOOLEAN, n \in UseNames, a \in {<<>>, <<Path>>}}

\* the command lines of the invocations that are run at the same time: two
\* saves of one name, its use, and the listing
Concurrent ==
  {Cli(TRUE, FALSE, FALSE, None, None, <<>>),
   Cli(FALSE, TRUE, FALSE, Some(NameA), None, <<FlagsHn, Pat>>),
   Cli(FALSE, TRUE, FALSE, Some(NameA), Some(Rg), <<<<>>, Pat>>),
   Cli(FALSE, FALSE, TRUE, Some(NameA), None, <<>>)}

(***************************************************************************)
(* State                                                                   *)
(***************************************************************************)
VARIABLES
  load,      \* how the program is run: "serial", one invocation at a time with
             \* any command line, or "race", NumProcs invocations at a time
             \* with the command lines of Concurrent
  home,      \* whether dirs::home_dir() is Some
  dirs,      \* the pattern directories that exist
  files,     \* files[d]: the text of every file of directory d, by file name
  pc,        \* where each invocation is in run()
  cli,       \* its parsed command line
  dir,       \* its pattern_dir
  rec,       \* its Pattern, once it has one: the one to save, or the one decoded
  patstr,    \* its pattern_str, once it has one
  cmd,       \* the ProcessCommand it has built
  piped,     \* what stdin_is_pipe() returned
  out,       \* its exit code, error message, output and spawned child
  made,      \* history: the files created by save_pattern
  saved,     \* history: the text each successful save wrote, by directory and name
  tries,     \* history: per file, the saves that found it absent when they
             \* resolved the directory
  fresh,     \* history: the file was absent when this save resolved the directory
  prior,     \* history: a save of this name had succeeded when this save
             \* resolved the directory
  alone,     \* history: no other invocation was running when this one began,
             \* and none has begun since
  mustSee    \* history: the names saved with success before this --list began

vars ==
  <<load, home, dirs, files, pc, cli, dir, rec, patstr, cmd, piped, out,
    made, saved, tries, fresh, prior, alone, mustSee>>

env == <<load, home>>

locals == <<cli, dir, rec, patstr, cmd, piped>>

hist == <<made, saved, tries, fresh, prior, mustSee>>

\* an error message and what it is about (a pattern name or a file)
Err(msg, d, f) == [msg |-> msg, dir |-> d, file |-> f]

NoErr == Err("", "", <<>>)

\* Command::new(operator) with its arguments
Command(prog, args) == [prog |-> prog, args |-> args]

\* a child that ran: its command and the exit code of its status (None when
\* a signal ended it)
Child(command, code) == [prog |-> command.prog, args |-> command.args, status |-> code]

\* what an invocation leaves behind: its exit code, the error it printed,
\* the lines it printed, the child it ran
Outcome(code, err, stdout, child) ==
  [code |-> code, stderr |-> err, stdout |-> stdout, child |-> child]

NoOut == Outcome(0, NoErr, <<>>, None)

\* main: an Err of run() is printed and the exit code is 1
Failure(err) == Outcome(1, err, <<>>, None)

\* a function with one more (or one changed) argument
Put(fn, k, v) == [x \in DOMAIN fn \cup {k} |-> IF x = k THEN v ELSE fn[x]]

Min(a, b) == IF a <= b THEN a ELSE b

Running(p) == pc[p] \notin {"idle", "done"}

\* the file an invocation names
Target(p) == FileName(cli[p].name[1])

Exists(d, f) == d \in dirs /\ f \in DOMAIN files[d]

\* before the first invocation: a home directory or none, any of the two
\* pattern directories, empty or (for .config/gf, as in the tests) holding a
\* hand-made pattern file
Init ==
  /\ load \in {"serial", "race"}
  /\ home \in BOOLEAN
  /\ dirs \in SUBSET Dirs
  /\ home = FALSE => dirs = {}
  /\ load = "race" => home /\ dirs \in {{}, {"config"}}
  /\ \/ files = [d \in Dirs |-> <<>>]
     \/ /\ load = "serial"
        /\ dirs = {"config"}
        /\ \E text \in HandTexts :
             files = [d \in Dirs |-> IF d = "config" THEN HandMade(text) ELSE <<>>]
  /\ pc = [p \in Procs |-> "idle"]
  /\ cli = [p \in Procs |-> NoCli]
  /\ dir = [p \in Procs |-> ""]
  /\ rec = [p \in Procs |-> None]
  /\ patstr = [p \in Procs |-> None]
  /\ cmd = [p \in Procs |-> None]
  /\ piped = [p \in Procs |-> FALSE]
  /\ out = [p \in Procs |-> NoOut]
  /\ made = {}
  /\ saved = <<>>
  /\ tries = <<>>
  /\ fresh = [p \in Procs |-> FALSE]
  /\ prior = [p \in Procs |-> FALSE]
  /\ alone = [p \in Procs |-> FALSE]
  /\ mustSee = [p \in Procs |-> {}]

(***************************************************************************)
(* Steps of run()                                                          *)
(***************************************************************************)
Goto(p, l) == pc' = [pc EXCEPT ![p] = l]

Finish(p, o) == pc' = [pc EXCEPT ![p] = "done"] /\ out' = [out EXCEPT ![p] = o]

\* Cli::parse() and run() up to its first call of get_pattern_dir
Start(p) ==
  /\ pc[p] = "idle"
  /\ \A q \in Procs : q < p => pc[q] # "idle"
  /\ \E c \in Invocations :
       /\ load = "serial" => p = 1
       /\ load = "race" => c \in Concurrent
       /\ cli' = [cli EXCEPT ![p] = c]
       /\ IF c.list
          THEN /\ Goto(p, "list_dir")
               /\ UNCHANGED <<rec, out>>
          ELSE IF c.save
          THEN IF SaveArgsError(c) # ""
               THEN /\ Finish(p, Failure(Err(SaveArgsError(c), "", <<>>)))
                    /\ UNCHANGED rec
               ELSE /\ rec' = [rec EXCEPT ![p] =
                                 Some(NewPattern(SaveFlags(c.args),
                                                 SavePatternArg(c.args)[1], c.engine))]
                    /\ Goto(p, "save_dir")
                    /\ UNCHANGED out
          ELSE IF ~IsSome(c.name)
          THEN /\ Finish(p, Failure(Err("Pattern name is required", "", <<>>)))
               /\ UNCHANGED rec
          ELSE /\ Goto(p, "use_dir")
               /\ UNCHANGED <<rec, out>>
       /\ mustSee' = [mustSee EXCEPT ![p] =
                        IF c.list THEN {k[2] : k \in DOMAIN saved} ELSE {}]
  /\ alone' = [q \in Procs |-> q = p /\ \A r \in Procs \ {p} : ~Running(r)]
  /\ UNCHANGED <<env, dirs, files, dir, patstr, cmd, piped, made, saved, tries, fresh, prior>>

\* the context run() and save_pattern give a failure of get_pattern_dir
NoDirMessage(c) ==
  IF c.list THEN "Failed to list patterns"
  ELSE IF c.save THEN "Failed to determine pattern directory"
  ELSE "Unable to open user's pattern directory"

\* get_pattern_dir
GetPatternDir(p) ==
  /\ pc[p] \in {"list_dir", "save_dir", "use_dir"}
  /\ IF ~home
     THEN /\ Finish(p, Failure(Err(NoDirMessage(cli[p]), "", <<>>)))
          /\ UNCHANGED <<dir, tries, fresh, prior>>
     ELSE LET d == PatternDir(dirs)
              t == <<d, cli[p].name[1]>>
              absent == ~Exists(d, Target(p))
          IN  /\ dir' = [dir EXCEPT ![p] = d]
              /\ Goto(p, CASE pc[p] = "list_dir" -> "list_exists"
                           [] pc[p] = "save_dir" -> "save_mkdir"
                           [] OTHER -> "use_open")
              /\ IF pc[p] = "save_dir"
                 THEN /\ fresh' = [fresh EXCEPT ![p] = absent]
                      /\ prior' = [prior EXCEPT ![p] = t \in DOMAIN saved]
                      /\ tries' = IF absent
                                  THEN Put(tries, t,
                                           IF t \in DOMAIN tries
                                           THEN Min(tries[t] + 1, NumProcs + 1)
                                           ELSE 1)
                                  ELSE tries
                 ELSE UNCHANGED <<tries, fresh, prior>>
              /\ UNCHANGED out
  /\ UNCHANGED <<env, dirs, files, cli, rec, patstr, cmd, piped, made, saved, alone, mustSee>>

\* fs::create_dir_all(&pattern_dir)
CreateDirAll(p) ==
  /\ pc[p] = "save_mkdir"
  /\ dirs' = dirs \cup {dir[p]}
  /\ Goto(p, "save_open")
  /\ UNCHANGED <<env, files, locals, out, hist, alone>>

\* (a variant: the file is opened with create and truncate, without create_new)
CreatesNewTruncates(d, f) == d \in dirs

\* whether OpenOptions::new().write(true).create_new(true).open(path)
\* creates the file: only where there is none
CreatesNew(d, f) == d \in dirs /\ f \notin DOMAIN files[d]

\* (a variant: the file is looked for when the directory is resolved and
\* opened later with create and truncate)
OpenAfterLookup(p) ==
  /\ pc[p] = "save_open"
  /\ IF fresh[p]
     THEN /\ files' = [files EXCEPT ![dir[p]] = Put(@, Target(p), <<>>)]
          /\ made' = made \cup {<<dir[p], Target(p)>>}
          /\ Goto(p, "save_write")
          /\ UNCHANGED out
     ELSE /\ Finish(p, Failure(Err("Failed to create pattern file", dir[p], Target(p))))
          /\ UNCHANGED <<files, made>>
  /\ UNCHANGED <<env, dirs, locals, saved, tries, fresh, prior, alone, mustSee>>

\* options.open(&path): the file is created empty, or the open fails
OpenCreateNew(p) ==
  /\ pc[p] = "save_open"
  /\ IF CreatesNew(dir[p], Target(p))
     THEN /\ files' = [files EXCEPT ![dir[p]] = Put(@, Target(p), <<>>)]
          /\ made' = made \cup {<<dir[p], Target(p)>>}
          /\ Goto(p, "save_write")
          /\ UNCHANGED out
     ELSE /\ Finish(p, Failure(Err("Failed to create pattern file", dir[p], Target(p))))
          /\ UNCHANGED <<files, made>>
  /\ UNCHANGED <<env, dirs, locals, saved, tries, fresh, prior, alone, mustSee>>

\* serde_json::to_writer_pretty(f, &p) and the return of Ok(())
WritePattern(p) ==
  /\ pc[p] = "save_write"
  /\ files' = [files EXCEPT ![dir[p]] = Put(@, Target(p), Serialize(rec[p][1]))]
  /\ saved' = IF <<dir[p], cli[p].name[1]>> \in DOMAIN saved THEN saved
             ELSE Put(saved, <<dir[p], cli[p].name[1]>>, Serialize(rec[p][1]))
  /\ Finish(p, NoOut)
  /\ UNCHANGED <<env, dirs, locals, made, tries, fresh, prior, alone, mustSee>>

\* pattern_dir.exists() in get_patterns
ListExists(p) ==
  /\ pc[p] = "list_exists"
  /\ IF dir[p] \in dirs
     THEN Goto(p, "list_read") /\ UNCHANGED out
     ELSE Finish(p, NoOut)
  /\ UNCHANGED <<env, dirs, files, locals, hist, alone>>

\* the entries get_patterns keeps, and the name it returns for each
IsPatternFile(f) == Extension(f) = Some(JSON)

PatternNames(fs) == {FileStem(f)[1] : f \in {g \in fs : IsPatternFile(g)}}

\* the sequences that list every element of a set once
Orderings(S) ==
  {q \in [1..Cardinality(S) -> S] : \A i, j \in 1..Cardinality(S) : q[i] = q[j] => i = j}

\* fs::read_dir and the loop of get_patterns, then the printing of run():
\* the names come in the order the directory yields them
ReadDir(p) ==
  /\ pc[p] = "list_read"
  /\ \E listing \in Orderings(PatternNames(DOMAIN files[dir[p]])) :
       Finish(p, Outcome(0, NoErr, listing, None))
  /\ UNCHANGED <<env, dirs, files, locals, hist, alone>>

\* (a variant: the error of the open names the file, not the pattern)
OpenPatternNamesFile(p) ==
  /\ pc[p] = "use_open"
  /\ IF Exists(dir[p], Target(p))
     THEN Goto(p, "use_read") /\ UNCHANGED out
     ELSE Finish(p, Failure(Err("No such pattern", dir[p], Target(p))))
  /\ UNCHANGED <<env, dirs, files, locals, hist, alone>>

\* fs::File::open(&filename)
OpenPattern(p) ==
  /\ pc[p] = "use_open"
  /\ IF Exists(dir[p], Target(p))
     THEN Goto(p, "use_read") /\ UNCHANGED out
     ELSE Finish(p, Failure(Err("No such pattern", "", cli[p].name[1])))
  /\ UNCHANGED <<env, dirs, files, locals, hist, alone>>

\* serde_json::from_reader(f), the resolution of the pattern and the engine,
\* and then the printing of the command (--dump) or its construction
ReadPattern(p) ==
  /\ pc[p] = "use_read"
  /\ LET text == files[dir[p]][Target(p)]
         pat == Deserialize(text)
         pattern_str == PatternStr(pat)
         files_arg == FilesArg(cli[p].args)
     IN  IF ~Decodes(text)
         THEN /\ Finish(p, Failure(Err("is malformed", dir[p], Target(p))))
              /\ UNCHANGED <<rec, patstr, cmd, piped>>
         ELSE /\ rec' = [rec EXCEPT ![p] = Some(pat)]
              /\ patstr' = [patstr EXCEPT ![p] = pattern_str]
              /\ IF ~IsSome(pattern_str)
                 THEN /\ Finish(p, Failure(Err("contains no pattern(s)", dir[p], Target(p))))
                      /\ UNCHANGED <<cmd, piped>>
                 ELSE IF cli[p].dump
                 THEN /\ Finish(p, Outcome(0, NoErr,
                                           <<DumpCommand(pat, pattern_str[1], files_arg)>>,
                                           None))
                      /\ UNCHANGED <<cmd, piped>>
                 ELSE \E stdin_is_pipe \in BOOLEAN :
                        /\ piped' = [piped EXCEPT ![p] = stdin_is_pipe]
                        /\ cmd' = [cmd EXCEPT ![p] =
                                     Some(Command(EngineOf(pat),
                                                  CommandArgs(pat, pattern_str[1],
                                                              files_arg, stdin_is_pipe)))]
                        /\ Goto(p, "exec")
                        /\ UNCHANGED out
  /\ UNCHANGED <<env, dirs, files, cli, dir, hist, alone>>

\* what cmd.status() may return: Err (the engine cannot be spawned), or the
\* status of the child: an exit code, or none when a signal ended it
Statuses ==
  {[spawned |-> FALSE, code |-> None]}
    \cup {[spawned |-> TRUE, code |-> c] : c \in {None} \cup {Some(n) : n \in 0..MaxExitCode}}

\* cmd.status() and the exit of the program
Status(p) ==
  /\ pc[p] = "exec"
  /\ \E st \in Statuses :
       IF ~st.spawned
       THEN Finish(p, Failure(Err("Failed to execute command", "", <<>>)))
       ELSE Finish(p, Outcome(ExitCodeAfter(st.code), NoErr, <<>>,
                              Some(Child(cmd[p][1], st.code))))
  /\ UNCHANGED <<env, dirs, files, locals, hist, alone>>

\* the process is gone; its slot serves the next invocation
Exit(p) ==
  /\ pc[p] = "done"
  /\ pc' = [pc EXCEPT ![p] = "idle"]
  /\ cli' = [cli EXCEPT ![p] = NoCli]
  /\ dir' = [dir EXCEPT ![p] = ""]
  /\ rec' = [rec EXCEPT ![p] = None]
  /\ patstr' = [patstr EXCEPT ![p] = None]
  /\ cmd' = [cmd EXCEPT ![p] = None]
  /\ piped' = [piped EXCEPT ![p] = FALSE]
  /\ out' = [out EXCEPT ![p] = NoOut]
  /\ fresh' = [fresh EXCEPT ![p] = FALSE]
  /\ prior' = [prior EXCEPT ![p] = FALSE]
  /\ alone' = [alone EXCEPT ![p] = FALSE]
  /\ mustSee' = [mustSee EXCEPT ![p] = {}]
  /\ UNCHANGED <<env, dirs, files, made, saved, tries>>

Next ==
  \E p \in Procs :
    \/ Start(p)
    \/ GetPatternDir(p)
    \/ CreateDirAll(p)
    \/ OpenCreateNew(p)
    \/ WritePattern(p)
    \/ ListExists(p)
    \/ ReadDir(p)
    \/ OpenPattern(p)
    \/ ReadPattern(p)
    \/ Status(p)
    \/ Exit(p)

Spec == Init /\ [][Next]_vars

(***************************************************************************)
(* The same program where the file system may fail                         *)
(***************************************************************************)
\* fs::create_dir_all fails
CreateDirFails(p) ==
  /\ pc[p] = "save_mkdir"
  /\ dir[p] \notin dirs
  /\ Finish(p, Failure(Err("Failed to create pattern directory", "", <<>>)))
  /\ UNCHANGED <<env, dirs, files, locals, hist, alone>>

\* serde_json::to_writer_pretty fails: a part of the text has been written
WriteFails(p) ==
  /\ pc[p] = "save_write"
  /\ \E n \in 0..(Len(Serialize(rec[p][1])) - 1) :
       files' = [files EXCEPT ![dir[p]] =
                   Put(@, Target(p), SubSeq(Serialize(rec[p][1]), 1, n))]
  /\ Finish(p, Failure(Err("Failed to write pattern file", "", <<>>)))
  /\ UNCHANGED <<env, dirs, locals, hist, alone>>

NextFault ==
  \/ Next
  \/ \E p \in Procs : CreateDirFails(p) \/ WriteFails(p)

SpecFault == Init /\ [][NextFault]_vars

(***************************************************************************)
(* Properties                                                              *)
(***************************************************************************)
Done(p) == pc[p] = "done"

IsList(p) == cli[p].list

IsSave(p) == ~cli[p].list /\ cli[p].save

IsUse(p) == ~cli[p].list /\ ~cli[p].save

Range(q) == {q[i] : i \in 1..Len(q)}

\* a command line of --save with a non-empty name and, as second trailing
\* argument, a non-empty pattern
ValidSave(c) ==
  /\ IsSome(c.name) /\ c.name[1] # <<>>
  /\ Len(c.args) >= 2 /\ c.args[2] # <<>>

\* the text of the record of a --save command line: flags (null when
\* empty), pattern, no patterns, engine (null when not given)
RecordText(flags, pattern, engine) ==
  << LBrace,
     Member("flags", IF flags = <<>> THEN JNull ELSE JStr(flags)),
     Member("pattern", JStr(pattern)),
     Member("patterns", JNull),
     Member("engine", IF engine = <<>> THEN JNull ELSE JStr(engine[1])),
     RBrace >>

\* the error of a save that finds its file
AlreadyExists(p) ==
  Failure(Err("Failed to create pattern file", dir[p], cli[p].name[1] \o DOT \o JSON))

\* the text of the file an invocation names
TextOf(p) == files[dir[p]][cli[p].name[1] \o DOT \o JSON]

\* C1 (as amended): a save with a non-empty name and a non-empty pattern, run
\* with no other invocation beside it and with a home directory, succeeds
\* and leaves its record in <name>.json when no save of that name has
\* succeeded in the resolved directory before, and otherwise fails with exit
\* code 1 and 'Failed to create pattern file'; the file of a successful save
\* keeps the text that save wrote, whatever is run afterwards.
C1_SaveTwice ==
  /\ \A t \in DOMAIN saved :
       /\ t[1] \in dirs
       /\ FileName(t[2]) \in DOMAIN files[t[1]]
       /\ files[t[1]][FileName(t[2])] = saved[t]
  /\ \A p \in Procs :
       (Done(p) /\ IsSave(p) /\ home /\ alone[p] /\ ValidSave(cli[p])) =>
          IF prior[p]
          THEN /\ out[p] = AlreadyExists(p)
               /\ TextOf(p) = saved[<<dir[p], cli[p].name[1]>>]
          ELSE /\ out[p] = NoOut
               /\ TextOf(p) = RecordText(cli[p].args[1], cli[p].args[2], cli[p].engine)

\* a second save of a name, with another record than the first, has failed
C1_Witness ==
  \E p \in Procs :
    /\ Done(p) /\ IsSave(p) /\ alone[p] /\ prior[p]
    /\ out[p].code = 1
    /\ TextOf(p) # RecordText(cli[p].args[1], cli[p].args[2], cli[p].engine)

\* C1 (as stated): for every name, with any flags and patterns, the first
\* save succeeds and the second fails with AlreadyExists, the file unchanged.
C1_Original ==
  \A p \in Procs :
    (Done(p) /\ IsSave(p) /\ home /\ alone[p] /\ IsSome(cli[p].name)) =>
       IF prior[p]
       THEN /\ out[p] = AlreadyExists(p)
            /\ TextOf(p) = saved[<<dir[p], cli[p].name[1]>>]
       ELSE out[p] = NoOut

\* two saves of one name that both found the file absent when they resolved
\* the directory, and were the only ones to, have both ended
Raced(p, q) ==
  /\ p # q
  /\ Done(p) /\ Done(q) /\ IsSave(p) /\ IsSave(q)
  /\ dir[p] # "" /\ dir[p] = dir[q] /\ cli[p].name = cli[q].name
  /\ fresh[p] /\ fresh[q]
  /\ tries[<<dir[p], cli[p].name[1]>>] = 2

\* C2: of two saves of one name that run at the same time, one succeeds, the
\* other fails with exit code 1 and 'Failed to create pattern file', and the
\* file holds the record of the one that succeeded.
C2_ExactlyOneWins ==
  \A p, q \in Procs :
    Raced(p, q) =>
      \E w \in {p, q} :
        \E l \in {p, q} \ {w} :
          /\ out[w] = NoOut
          /\ out[l] = AlreadyExists(l)
          /\ TextOf(w) = RecordText(cli[w].args[1], cli[w].args[2], cli[w].engine)

\* two saves of one name with different records have raced
C2_Witness ==
  \E p, q \in Procs :
    /\ Raced(p, q)
    /\ cli[p].args # cli[q].args
    /\ out[p] = NoOut

\* C3: a file made by save, when it exists, holds a complete record, and no
\* use of a name finds the file made by a save malformed.
C3_NoPartialFile ==
  /\ \A t \in made :
       t[2] \in DOMAIN files[t[1]] =>
         \E f \in {<<>>, FlagsHn}, e \in {None, Some(Rg)} :
           files[t[1]][t[2]] = RecordText(f, Pat, e)
  /\ \A p \in Procs :
       (Done(p) /\ IsUse(p) /\ out[p].stderr.msg = "is malformed") =>
          <<dir[p], cli[p].name[1] \o DOT \o JSON>> \notin made

\* C4: a --list prints every name that a save had saved with success before
\* the --list began, and exits with 0.
C4_SavedIsListed ==
  \A p \in Procs :
    (Done(p) /\ IsList(p)) =>
       \A n \in mustSee[p] : out[p].code = 0 /\ n \in Range(out[p].stdout)

\* a --list after the saves of two names, one with a dot, into the fallback
\* directory
C4_Witness ==
  \E p \in Procs :
    /\ Done(p) /\ IsList(p)
    /\ mustSee[p] = {NameA, NameBC}
    /\ dir[p] = "gf"

RECURSIVE TotalLen(_)
\* the length of the elements of a sequence of strings, one more for each
TotalLen(ps) == IF ps = <<>> THEN 0 ELSE Len(Head(ps)) + 1 + TotalLen(Tail(ps))

\* s is '(' , the elements of ps in order with a '|' between two of them, ')'
IsAlternation(s, ps) ==
  /\ Len(s) = 1 + TotalLen(ps)
  /\ s[1] = "("
  /\ \A i \in 1..Len(ps) :
       LET off == 1 + TotalLen(SubSeq(ps, 1, i - 1))
       IN  /\ \A k \in 1..Len(ps[i]) : s[off + k] = ps[i][k]
           /\ s[off + Len(ps[i]) + 1] = IF i = Len(ps) THEN ")" ELSE "|"

\* C5: the pattern string of a decoded record is its pattern when it has
\* one; otherwise, when it has patterns and they are not empty, they joined
\* with '|' in one pair of parentheses; otherwise the use fails with
\* 'contains no pattern(s)'.
C5_ResolvedPattern ==
  \A p \in Procs :
    (IsUse(p) /\ IsSome(rec[p])) =>
       LET r == rec[p][1]
       IN  IF r.pattern # None
           THEN patstr[p] = r.pattern
           ELSE IF r.patterns # None /\ r.patterns[1] # <<>>
           THEN /\ patstr[p] # None
                /\ IsAlternation(patstr[p][1], r.patterns[1])
           ELSE /\ patstr[p] = None
                /\ Done(p)
                /\ out[p] = Failure(Err("contains no pattern(s)", dir[p],
                                        cli[p].name[1] \o DOT \o JSON))

\* a record with the patterns a, b, c and no pattern gave (a|b|c)
C5_Witness ==
  \E p \in Procs :
    /\ IsUse(p) /\ IsSome(rec[p])
    /\ rec[p][1].pattern = None
    /\ rec[p][1].patterns = Some(<<<<"a">>, <<"b">>, <<"c">>>>)
    /\ patstr[p] = Some(<<"(", "a", "|", "b", "|", "c", ")">>)

\* C6: --dump prints the engine (grep when the record has none), the flags
\* when the record has flags that are not empty, the quoted pattern and the
\* files, with one space between two of them.
C6_DumpLine ==
  \A p \in Procs :
    (Done(p) /\ IsUse(p) /\ cli[p].dump /\ IsSome(patstr[p])) =>
       LET r == rec[p][1]
           engine == IF r.engine = None THEN GREP ELSE r.engine[1]
           files_arg == IF cli[p].args = <<>> THEN DOT ELSE cli[p].args[1]
           flags == IF r.flags = None \/ r.flags = Some(<<>>) THEN <<>>
                    ELSE r.flags[1] \o SPACE
       IN  out[p].stdout =
             <<engine \o SPACE \o flags \o DebugStr(patstr[p][1]) \o SPACE \o files_arg>>

\* the words of a string: its maximal runs of characters that are not
\* whitespace, as pairs of positions
WordsOf(s) ==
  {w \in (1..Len(s)) \X (1..Len(s)) :
     /\ w[1] <= w[2]
     /\ \A k \in w[1]..w[2] : s[k] \notin {" ", "\t", "\n"}
     /\ w[1] = 1 \/ s[w[1] - 1] \in {" ", "\t", "\n"}
     /\ w[2] = Len(s) \/ s[w[2] + 1] \in {" ", "\t", "\n"}}

\* ws lists the words of s in order
IsSplit(ws, s) ==
  /\ Len(ws) = Cardinality(WordsOf(s))
  /\ \A w \in WordsOf(s) :
       ws[1 + Cardinality({v \in WordsOf(s) : v[1] < w[1]})] = SubSeq(s, w[1], w[2])

\* C7: the engine is given the words of the flags (none when the record has
\* no flags or empty ones), then the pattern string as one argument, then,
\* if and only if stdin is not a pipe, the files argument: the first
\* trailing argument, '.' when there is none.
C7_EngineArguments ==
  \A p \in Procs :
    (IsUse(p) /\ IsSome(cmd[p])) =>
       LET flags == IF rec[p][1].flags = None THEN <<>> ELSE rec[p][1].flags[1]
           n == Cardinality(WordsOf(flags))
           a == cmd[p][1].args
           files_arg == IF cli[p].args = <<>> THEN DOT ELSE cli[p].args[1]
       IN  /\ Len(a) = n + 1 + (IF piped[p] THEN 0 ELSE 1)
           /\ IsSplit(SubSeq(a, 1, n), flags)
           /\ a[n + 1] = patstr[p][1]
           /\ ~piped[p] => a[n + 2] = files_arg
           /\ IsSome(out[p].child) =>
                out[p].child[1].args = a /\ out[p].child[1].prog = cmd[p][1].prog

\* with stdin a pipe and a files argument given, a record with two flags
\* has led to an engine run with the flags and the pattern only
C7_Witness ==
  \E p \in Procs :
    /\ Done(p) /\ IsUse(p) /\ IsSome(out[p].child)
    /\ piped[p]
    /\ cli[p].args = <<Path>>
    /\ out[p].child[1].args = <<<<"-", "H">>, <<"-", "n">>, Pat>>

\* C8: after the child ended, the exit code is the child's (0 included), 1
\* when a signal ended the child; when the engine cannot be spawned, the
\* exit code is 1 and the error 'Failed to execute command'.
C8_ExitCode ==
  \A p \in Procs :
    (Done(p) /\ IsSome(cmd[p])) =>
       IF out[p].child = None
       THEN out[p] = Failure(Err("Failed to execute command", "", <<>>))
       ELSE /\ out[p].stderr = NoErr
            /\ out[p].code = IF out[p].child[1].status = None THEN 1
                             ELSE out[p].child[1].status[1]

\* a child has ended with the exit code MaxExitCode, and so has the program
C8_Witness ==
  \E p \in Procs :
    /\ Done(p) /\ IsSome(out[p].child)
    /\ out[p].child[1].status = Some(MaxExitCode)
    /\ out[p].code = MaxExitCode

\* a text gives a pattern or patterns that are not empty
HasPattern(text) ==
  \E i \in 1..Len(text) :
    \/ text[i].k = "pattern" /\ text[i].v.t = "str"
    \/ text[i].k = "patterns" /\ text[i].v.t = "arr" /\ text[i].v.a # <<>>

\* C9: a use of a name, run with no other invocation beside it, fails with
\* exit code 1 and 'No such pattern' when the file does not exist, 'is
\* malformed' when it exists and does not decode, 'contains no pattern(s)'
\* when it decodes and has no pattern and no patterns that are not empty;
\* then nothing is printed and no engine is run, and in no other case does
\* it fail with one of these errors.
C9_LoadErrors ==
  \A p \in Procs :
    (Done(p) /\ IsUse(p) /\ IsSome(cli[p].name) /\ home /\ alone[p]) =>
       LET f == cli[p].name[1] \o DOT \o JSON
           there == dir[p] \in dirs /\ f \in DOMAIN files[dir[p]]
       IN  IF ~there
           THEN out[p] = Failure(Err("No such pattern", "", cli[p].name[1])) /\ cmd[p] = None
           ELSE IF ~Decodes(files[dir[p]][f])
           THEN out[p] = Failure(Err("is malformed", dir[p], f)) /\ cmd[p] = None
           ELSE IF ~HasPattern(files[dir[p]][f])
           THEN out[p] = Failure(Err("contains no pattern(s)", dir[p], f)) /\ cmd[p] = None
           ELSE out[p].stderr.msg \notin
                  {"No such pattern", "is malformed", "contains no pattern(s)"}

\* a file that decodes, with empty patterns and no pattern, has been refused
C9_Witness ==
  \E p \in Procs :
    /\ Done(p) /\ IsUse(p) /\ alone[p]
    /\ out[p].stderr.msg = "contains no pattern(s)"
    /\ IsSome(rec[p]) /\ rec[p][1].patterns = Some(<<>>)

\* C10 (as amended): the first trailing argument of --save is the flags and
\* the second the pattern: with a non-empty name, a save fails with 'Pattern
\* cannot be empty' exactly when it has fewer than two trailing arguments or
\* an empty second one; with fewer than two it touches no file; with empty
\* flags and a non-empty pattern, run alone with a home directory where no
\* save of the name has succeeded, it exits with 0 and leaves in
\* <name>.json the pattern with no flags.
C10_FlagsArePositional ==
  \A p \in Procs :
    (Done(p) /\ IsSave(p) /\ IsSome(cli[p].name) /\ cli[p].name[1] # <<>>) =>
       /\ out[p].stderr.msg = "Pattern cannot be empty"
            <=> (Len(cli[p].args) < 2 \/ cli[p].args[2] = <<>>)
       /\ Len(cli[p].args) < 2 =>
            /\ out[p] = Failure(Err("Pattern cannot be empty", "", <<>>))
            /\ dir[p] = "" /\ rec[p] = None
       /\ (Len(cli[p].args) >= 2 /\ cli[p].args[1] = <<>> /\ cli[p].args[2] # <<>>
             /\ home /\ alone[p] /\ ~prior[p]) =>
            /\ out[p] = NoOut
            /\ TextOf(p) = RecordText(<<>>, cli[p].args[2], cli[p].engine)

\* a save with a name and one trailing argument has failed with 'Pattern
\* cannot be empty'
C10_Witness ==
  \E p \in Procs :
    /\ Done(p) /\ IsSave(p)
    /\ cli[p].name = Some(NameA) /\ cli[p].args = <<Pat>>
    /\ out[p] = Failure(Err("Pattern cannot be empty", "", <<>>))

\* C10 (as stated): a save with a non-empty name and one trailing argument,
\* the pattern, leaves the pattern with no flags in <name>.json and exits
\* with 0, and a save fails with 'Pattern cannot be empty' only when it has
\* no trailing argument or an empty last one.
C10_Original ==
  \A p \in Procs :
    (Done(p) /\ IsSave(p) /\ IsSome(cli[p].name) /\ cli[p].name[1] # <<>>) =>
       /\ out[p].stderr.msg = "Pattern cannot be empty" =>
            (cli[p].args = <<>> \/ cli[p].args[Len(cli[p].args)] = <<>>)
       /\ (Len(cli[p].args) = 1 /\ cli[p].args[1] # <<>> /\ home /\ alone[p]
             /\ \A d \in Dirs : <<d, cli[p].name[1]>> \notin DOMAIN saved) =>
            /\ out[p] = NoOut
            /\ TextOf(p) = RecordText(<<>>, cli[p].args[1], cli[p].engine)

====
